---- MODULE Spec2Model ----
(***************************************************************************)
(* The model update command of the diagram client (UpdateModelCommand):    *)
(* a new model tree, or a list of match directives, is reconciled with the *)
(* current tree; moves, resizes and fades are collected and returned as an *)
(* animation; undo and redo replay the reconciliation on the two roots the *)
(* command captured.  The set-model command and the event listener         *)
(* registration of virtual DOM nodes are modelled beside it.               *)
(*                                                                         *)
(* Numbers: coordinates and dimensions are integers in units of one        *)
(* tolerance step; opacity is in percent (0..100).                         *)
(***************************************************************************)
EXTENDS Integers, Sequences, FiniteSets, TLC

\* ------------------------------------------------------------------ bounds

\* undo/redo operations the command stack issues after execute
MaxOps == 2
\* match directives in one action
MaxMatches == 2

\* ------------------------------------------------------------- model trees

\* the JavaScript value undefined, where an identifier is expected
Undefined == "undefined"

\* an optional value: <<>> is undefined, <<v>> is v
Nothing == <<>>
Some(v) == <<v>>
IsDef(o) == o /= <<>>
Val(o) == o[1]

\* SModelRoot.canvasBounds before the client measured the canvas (EMPTY_BOUNDS)
EMPTY_BOUNDS == "EMPTY_BOUNDS"

AllCaps == {"loc", "bnd", "sel", "fade"}

\* a child element (SChildElement); caps are the features it implements
Elem(id, caps, x, y, w, h, selected, opacity, children) ==
    [id |-> id, root |-> FALSE, caps |-> caps, x |-> x, y |-> y, w |-> w, h |-> h,
     selected |-> selected, opacity |-> opacity,
     canvasBounds |-> EMPTY_BOUNDS, scroll |-> 0, zoom |-> 1, children |-> children]

\* a root element (SModelRoot, or ViewportRootElement when "vp" is among its caps)
Root(id, caps, canvasBounds, scroll, zoom, children) ==
    [id |-> id, root |-> TRUE, caps |-> caps, x |-> 0, y |-> 0, w |-> -1, h |-> -1,
     selected |-> FALSE, opacity |-> 100,
     canvasBounds |-> canvasBounds, scroll |-> scroll, zoom |-> zoom, children |-> children]

isLocateable(n) == "loc" \in n.caps
isBoundsAware(n) == "bnd" \in n.caps
isSelectable(n) == "sel" \in n.caps
isFadeable(n) == "fade" \in n.caps
isViewportRoot(n) == n.root /\ "vp" \in n.caps
IsSModelRoot(n) == n.root
IsSChildElement(n) == ~n.root
\* every element class of the model is a parent element
IsSParentElement(n) == TRUE

Front(p) == SubSeq(p, 1, Len(p) - 1)
Last(p) == p[Len(p)]
RemoveIndex(s, i) == SubSeq(s, 1, i - 1) \o SubSeq(s, i + 1, Len(s))

RECURSIVE GetAt(_, _)
\* the element at path p (child indices from the root)
GetAt(n, p) == IF p = <<>> THEN n ELSE GetAt(n.children[Head(p)], Tail(p))

RECURSIVE ReplaceAt(_, _, _)
\* the tree with the element at path p replaced by m
ReplaceAt(n, p, m) ==
    IF p = <<>> THEN m
    ELSE [n EXCEPT !.children[Head(p)] = ReplaceAt(n.children[Head(p)], Tail(p), m)]

\* parent.add(child): the child is appended to the parent's children
AddChild(n, p, c) ==
    LET parent == GetAt(n, p)
    IN ReplaceAt(n, p, [parent EXCEPT !.children = Append(parent.children, c)])

\* element.parent.remove(element) for the element at path p (p is not the root)
RemoveAt(n, p) ==
    LET parent == GetAt(n, Front(p))
    IN ReplaceAt(n, Front(p), [parent EXCEPT !.children = RemoveIndex(parent.children, Last(p))])

RECURSIVE PathsOf(_, _)
RECURSIVE PathsOfKids(_, _, _)
\* the paths of the subtree of n (which sits at path p), parents before children
PathsOf(n, p) == <<p>> \o PathsOfKids(n, p, 1)
PathsOfKids(n, p, i) ==
    IF i > Len(n.children) THEN <<>>
    ELSE PathsOf(n.children[i], Append(p, i)) \o PathsOfKids(n, p, i + 1)

AllPaths(t) == PathsOf(t, <<>>)
PathSet(t) == {AllPaths(t)[i] : i \in 1..Len(AllPaths(t))}
Ids(t) == {GetAt(t, p).id : p \in PathSet(t)}
ParentIdOf(t, p) == IF p = <<>> THEN Undefined ELSE GetAt(t, Front(p)).id

\* root.index.getById(id): the element of the tree with that id, or undefined
getById(t, id) ==
    LET ps == AllPaths(t)
        hits == {i \in 1..Len(ps) : GetAt(t, ps[i]).id = id}
    IN IF hits = {} THEN Nothing
       ELSE Some(ps[CHOOSE i \in hits : \A j \in hits : i <= j])

\* modelFactory.createElement(schema): every property and the children are copied
createElement(schema) == schema

\* modelFactory.createRoot(schema): every property and the children are copied;
\* a schema that carries no canvas bounds yields a root with EMPTY_BOUNDS
createRoot(schema) ==
    IF schema.canvasBounds = Undefined
    THEN [schema EXCEPT !.canvasBounds = EMPTY_BOUNDS]
    ELSE schema

\* ----------------------------------------------------------- model matching

\* a Match of a match result: the key, the two sides as paths into the left and
\* the right tree, and the parent identifiers
MatchEntry(id, left, right, leftParentId, rightParentId) ==
    [id |-> id, left |-> left, right |-> right,
     leftParentId |-> leftParentId, rightParentId |-> rightParentId]

\* the position of key id in a match result (0: no such key)
IndexOfId(result, id) ==
    LET hits == {i \in 1..Len(result) : result[i].id = id}
    IN IF hits = {} THEN 0 ELSE CHOOSE i \in hits : \A j \in hits : i <= j

\* result[id] = entry: a new key goes last, an existing key keeps its place
PutEntry(result, entry) ==
    LET i == IndexOfId(result, entry.id)
    IN IF i = 0 THEN Append(result, entry) ELSE [result EXCEPT ![i] = entry]

RECURSIVE matchLeft(_, _, _)
\* ModelMatcher.matchLeft over the paths ps of tree t, from position k on
matchLeft(t, result, k) ==
    LET ps == AllPaths(t)
    IN IF k > Len(ps) THEN result
       ELSE LET p == ps[k]
                id == GetAt(t, p).id
                i == IndexOfId(result, id)
                entry == IF i = 0
                         THEN MatchEntry(id, Some(p), Nothing, ParentIdOf(t, p), Undefined)
                         ELSE [result[i] EXCEPT !.left = Some(p), !.leftParentId = ParentIdOf(t, p)]
            IN matchLeft(t, PutEntry(result, entry), k + 1)

RECURSIVE matchRight(_, _, _)
\* ModelMatcher.matchRight over the paths of tree t, from position k on
matchRight(t, result, k) ==
    LET ps == AllPaths(t)
    IN IF k > Len(ps) THEN result
       ELSE LET p == ps[k]
                id == GetAt(t, p).id
                i == IndexOfId(result, id)
                entry == IF i = 0
                         THEN MatchEntry(id, Nothing, Some(p), Undefined, ParentIdOf(t, p))
                         ELSE [result[i] EXCEPT !.right = Some(p), !.rightParentId = ParentIdOf(t, p)]
            IN matchRight(t, PutEntry(result, entry), k + 1)

\* ModelMatcher.match(left, right): elements are paired by identifier
match(left, right) == matchRight(right, matchLeft(left, <<>>, 1), 1)

\* a match directive of an action: element schemas and parent identifiers
Directive(left, right, leftParentId, rightParentId) ==
    [left |-> left, right |-> right,
     leftParentId |-> leftParentId, rightParentId |-> rightParentId]

\* one round of the loop of convertToMatchResult
convertMatch(result, m, leftRoot, rightRoot) ==
    LET id == IF IsDef(m.right) THEN Val(m.right).id
              ELSE IF IsDef(m.left) THEN Val(m.left).id
              ELSE Undefined
        converted ==
            MatchEntry(id,
                IF IsDef(m.left) THEN getById(leftRoot, Val(m.left).id) ELSE Nothing,
                IF IsDef(m.right) THEN getById(rightRoot, Val(m.right).id) ELSE Nothing,
                IF IsDef(m.left) THEN m.leftParentId ELSE Undefined,
                IF IsDef(m.right) THEN m.rightParentId ELSE Undefined)
    IN IF id /= Undefined THEN PutEntry(result, converted) ELSE result

RECURSIVE convertFrom(_, _, _, _, _)
convertFrom(result, matches, k, leftRoot, rightRoot) ==
    IF k > Len(matches) THEN result
    ELSE convertFrom(convertMatch(result, matches[k], leftRoot, rightRoot),
                     matches, k + 1, leftRoot, rightRoot)

\* UpdateModelCommand.convertToMatchResult
convertToMatchResult(matches, leftRoot, rightRoot) ==
    convertFrom(<<>>, matches, 1, leftRoot, rightRoot)

\* mutant: an addition whose parent is not found is dropped
applyMatch_NoFallback(root, m) ==
    LET found == IF IsDef(m.left) THEN getById(root, Val(m.left).id) ELSE Nothing
        removed == IF IsDef(found) /\ IsSChildElement(GetAt(root, Val(found)))
                   THEN RemoveAt(root, Val(found))
                   ELSE root
        parent == IF m.rightParentId /= Undefined
                  THEN getById(removed, m.rightParentId)
                  ELSE Nothing
    IN IF IsDef(m.right) /\ IsDef(parent)
       THEN AddChild(removed, Val(parent), createElement(Val(m.right)))
       ELSE removed

\* one round of the loop of applyMatches on the working root
applyMatch(root, m) ==
    LET found == IF IsDef(m.left) THEN getById(root, Val(m.left).id) ELSE Nothing
        removed == IF IsDef(found) /\ IsSChildElement(GetAt(root, Val(found)))
                   THEN RemoveAt(root, Val(found))
                   ELSE root
        parent == IF m.rightParentId /= Undefined
                  THEN getById(removed, m.rightParentId)
                  ELSE Nothing
    IN IF IsDef(m.right)
       THEN IF IsDef(parent) /\ IsSParentElement(GetAt(removed, Val(parent)))
            THEN AddChild(removed, Val(parent), createElement(Val(m.right)))
            ELSE AddChild(removed, <<>>, createElement(Val(m.right)))
       ELSE removed

RECURSIVE applyMatchesFrom(_, _, _)
applyMatchesFrom(root, matches, k) ==
    IF k > Len(matches) THEN root
    ELSE applyMatchesFrom(applyMatch(root, matches[k]), matches, k + 1)

\* UpdateModelCommand.applyMatches
applyMatches(root, matches) == applyMatchesFrom(root, matches, 1)

\* ------------------------------------------------------- delta computation

\* the tolerance of almostEquals, in the model's unit
Tolerance == 1

Abs(a) == IF a < 0 THEN -a ELSE a

\* geometry.almostEquals: the two numbers differ by no more than the tolerance
almostEquals(a, b) == Abs(a - b) <= Tolerance

\* geometry.isValidDimension: a dimension that has been measured
isValidDimension(n) == n.w > 0 /\ n.h > 0

\* UpdateAnimationData: the moves and resizes lists are created on first use,
\* an absent list is the empty one here
EmptyData == [fades |-> <<>>, moves |-> <<>>, resizes |-> <<>>]

\* ResolvedElementFade, ResolvedElementMove, ResolvedElementResize: the element
\* is the path of the element in the new tree
Fade(p, type) == [element |-> p, type |-> type]
Move(p, id, from, to) == [element |-> p, elementId |-> id, fromPosition |-> from, toPosition |-> to]
Resize(p, id, from, to) == [element |-> p, elementId |-> id, fromDimension |-> from, toDimension |-> to]

\* mutant: one Locateable side is enough for the comparison
updateMove_EitherSide(left, right, rp, data) ==
    IF (isLocateable(left) \/ isLocateable(right))
       /\ (~almostEquals(left.x, right.x) \/ ~almostEquals(left.y, right.y))
    THEN [right |-> [right EXCEPT !.x = left.x, !.y = left.y],
          data |-> [data EXCEPT !.moves =
                       Append(@, Move(rp, right.id, <<left.x, left.y>>, <<right.x, right.y>>))]]
    ELSE [right |-> right, data |-> data]

\* mutant: the move is recorded, the position is left as delivered
updateMove_KeepsPosition(left, right, rp, data) ==
    IF isLocateable(left) /\ isLocateable(right)
       /\ (~almostEquals(left.x, right.x) \/ ~almostEquals(left.y, right.y))
    THEN [right |-> right,
          data |-> [data EXCEPT !.moves =
                       Append(@, Move(rp, right.id, <<left.x, left.y>>, <<right.x, right.y>>))]]
    ELSE [right |-> right, data |-> data]

\* the move branch of updateElement: [right, data] afterwards
updateMove(left, right, rp, data) ==
    IF isLocateable(left) /\ isLocateable(right)
       /\ (~almostEquals(left.x, right.x) \/ ~almostEquals(left.y, right.y))
    THEN [right |-> [right EXCEPT !.x = left.x, !.y = left.y],
          data |-> [data EXCEPT !.moves =
                       Append(@, Move(rp, right.id, <<left.x, left.y>>, <<right.x, right.y>>))]]
    ELSE [right |-> right, data |-> data]

\* mutant: a dimension that is not valid is compared like any other
updateResize_NoDeferral(left, right, rp, data) ==
    IF isBoundsAware(left) /\ isBoundsAware(right)
       /\ (~almostEquals(left.w, right.w) \/ ~almostEquals(left.h, right.h))
    THEN [right |-> right,
          data |-> [data EXCEPT !.resizes =
                       Append(@, Resize(rp, right.id, <<left.w, left.h>>, <<right.w, right.h>>))]]
    ELSE [right |-> right, data |-> data]

\* the resize branch of updateElement
updateResize(left, right, rp, data) ==
    IF isBoundsAware(left) /\ isBoundsAware(right)
    THEN IF ~isValidDimension(right)
         THEN [right |-> [right EXCEPT !.w = left.w, !.h = left.h], data |-> data]
         ELSE IF ~almostEquals(left.w, right.w) \/ ~almostEquals(left.h, right.h)
              THEN [right |-> right,
                    data |-> [data EXCEPT !.resizes =
                                 Append(@, Resize(rp, right.id, <<left.w, left.h>>, <<right.w, right.h>>))]]
              ELSE [right |-> right, data |-> data]
    ELSE [right |-> right, data |-> data]

\* mutant: the viewport is inherited, the selection is taken as delivered
updateInherited_DeliveredSelection(left, right) ==
    LET c == IF IsSModelRoot(left) /\ IsSModelRoot(right)
             THEN [right EXCEPT !.canvasBounds = left.canvasBounds] ELSE right
    IN IF isViewportRoot(left) /\ isViewportRoot(right)
       THEN [c EXCEPT !.scroll = left.scroll, !.zoom = left.zoom] ELSE c

\* the selection, canvas bounds and viewport branches of updateElement
updateInherited(left, right) ==
    LET s == IF isSelectable(left) /\ isSelectable(right)
             THEN [right EXCEPT !.selected = left.selected] ELSE right
        c == IF IsSModelRoot(left) /\ IsSModelRoot(right)
             THEN [s EXCEPT !.canvasBounds = left.canvasBounds] ELSE s
    IN IF isViewportRoot(left) /\ isViewportRoot(right)
       THEN [c EXCEPT !.scroll = left.scroll, !.zoom = left.zoom] ELSE c

\* UpdateModelCommand.updateElement(left, right, animationData); rp is the path
\* of right in the new tree
updateElement(left, right, rp, data) ==
    LET m == updateMove(left, right, rp, data)
        r == updateResize(left, m.right, rp, m.data)
    IN [right |-> updateInherited(left, r.right), data |-> r.data]

\* mutant: the fade in is queued, the opacity is left as delivered
addedElement_KeepsOpacity(newRoot, rp, data) ==
    IF isFadeable(GetAt(newRoot, rp))
    THEN [root |-> newRoot, data |-> [data EXCEPT !.fades = Append(@, Fade(rp, "in"))]]
    ELSE [root |-> newRoot, data |-> data]

\* the branch of computeAnimation for an added element
addedElement(newRoot, rp, data) ==
    LET right == GetAt(newRoot, rp)
    IN IF isFadeable(right)
       THEN [root |-> ReplaceAt(newRoot, rp, [right EXCEPT !.opacity = 0]),
             data |-> [data EXCEPT !.fades = Append(@, Fade(rp, "in"))]]
       ELSE [root |-> newRoot, data |-> data]

\* mutant: the copy is added also when the identifier is in the new tree
removedElement_NoPresenceTest(newRoot, left, leftParentId, data) ==
    IF isFadeable(left) /\ leftParentId /= Undefined /\ IsDef(getById(newRoot, leftParentId))
    THEN [root |-> AddChild(newRoot, Val(getById(newRoot, leftParentId)), createElement(left)),
          data |-> [data EXCEPT !.fades =
                       Append(@, Fade(Append(Val(getById(newRoot, leftParentId)),
                                             Len(GetAt(newRoot, Val(getById(newRoot, leftParentId))).children) + 1),
                                      "out"))]]
    ELSE [root |-> newRoot, data |-> data]

\* the branch of computeAnimation for a removed element: a copy of it is added
\* to the new tree and faded out
removedElement(newRoot, left, leftParentId, data) ==
    LET parent == getById(newRoot, leftParentId)
    IN IF isFadeable(left) /\ leftParentId /= Undefined
          /\ ~IsDef(getById(newRoot, left.id))
          /\ IsDef(parent) /\ IsSParentElement(GetAt(newRoot, Val(parent)))
       THEN LET pp == Val(parent)
                gp == Append(pp, Len(GetAt(newRoot, pp).children) + 1)
            IN [root |-> AddChild(newRoot, pp, createElement(left)),
                data |-> [data EXCEPT !.fades = Append(@, Fade(gp, "out"))]]
       ELSE [root |-> newRoot, data |-> data]

\* one round of the loop of computeAnimation over the match result
computeMatch(leftRoot, newRoot, m, data) ==
    IF IsDef(m.left) /\ IsDef(m.right)
    THEN LET u == updateElement(GetAt(leftRoot, Val(m.left)), GetAt(newRoot, Val(m.right)),
                                Val(m.right), data)
         IN [root |-> ReplaceAt(newRoot, Val(m.right), u.right), data |-> u.data]
    ELSE IF IsDef(m.right)
    THEN addedElement(newRoot, Val(m.right), data)
    ELSE IF IsDef(m.left) /\ IsSChildElement(GetAt(leftRoot, Val(m.left)))
    THEN removedElement(newRoot, GetAt(leftRoot, Val(m.left)), m.leftParentId, data)
    ELSE [root |-> newRoot, data |-> data]

RECURSIVE computeFrom(_, _, _, _, _)
computeFrom(leftRoot, newRoot, matchResult, k, data) ==
    IF k > Len(matchResult) THEN [root |-> newRoot, data |-> data]
    ELSE LET c == computeMatch(leftRoot, newRoot, matchResult[k], data)
         IN computeFrom(leftRoot, c.root, matchResult, k + 1, c.data)

\* movesMap.set(move.elementId, move) and resizesMap.set(resize.element.id,
\* resize) for every job: a later job of the same element replaces the earlier
RECURSIVE byElementId(_, _)
byElementId(jobs, k) ==
    IF k > Len(jobs) THEN <<>>
    ELSE LET rest == byElementId(jobs, k + 1)
         IN IF \E j \in k + 1..Len(jobs) : jobs[j].elementId = jobs[k].elementId
            THEN rest ELSE <<jobs[k]>> \o rest

\* UpdateModelCommand.createAnimations
createAnimations(data) ==
    (IF Len(data.fades) > 0
     THEN <<[kind |-> "fade", jobs |-> data.fades]>> ELSE <<>>)
    \o (IF Len(data.moves) > 0
        THEN <<[kind |-> "move", jobs |-> byElementId(data.moves, 1)]>> ELSE <<>>)
    \o (IF Len(data.resizes) > 0
        THEN <<[kind |-> "resize", jobs |-> byElementId(data.resizes, 1)]>> ELSE <<>>)

\* mutant: a compound animation only from three animations on
selectAnimation_CompoundFromThree(animations) ==
    IF Len(animations) > 2 THEN [kind |-> "compound", children |-> animations]
    ELSE IF Len(animations) >= 1 THEN [kind |-> animations[1].kind, children |-> <<animations[1]>>]
    ELSE [kind |-> "root", children |-> <<>>]

\* the result of computeAnimation: the animations list is empty for a plain
\* root, holds one animation, or the children of one compound animation
selectAnimation(animations) ==
    IF Len(animations) >= 2 THEN [kind |-> "compound", children |-> animations]
    ELSE IF Len(animations) = 1 THEN [kind |-> animations[1].kind, children |-> animations]
    ELSE [kind |-> "root", children |-> <<>>]

\* UpdateModelCommand.computeAnimation(newRoot, matchResult, context); leftRoot
\* is the tree the left sides of the matches are elements of
computeAnimation(leftRoot, newRoot, matchResult) ==
    LET c == computeFrom(leftRoot, newRoot, matchResult, 1, EmptyData)
    IN [root |-> c.root, data |-> c.data,
        result |-> selectAnimation(createAnimations(c.data))]

\* mutants of the test: the animate flag is not read; the root identifiers are
\* not compared
shouldAnimate_IgnoresFlag(animate, oldRoot, newRoot) == oldRoot.id = newRoot.id
shouldAnimate_IgnoresRootId(animate, oldRoot, newRoot) == animate

\* the test of performUpdate that decides between reconciliation and replacement
shouldAnimate(animate, oldRoot, newRoot) == animate /\ oldRoot.id = newRoot.id

\* UpdateModelCommand.performUpdate(oldRoot, newRoot, context) for an action
\* with the given matches (optional) and animate flag: the new tree as left
\* behind, the animation data and the command result
performUpdate(action, oldRoot, newRoot) ==
    IF shouldAnimate(action.animate, oldRoot, newRoot)
    THEN LET matchResult == IF ~IsDef(action.matches)
                            THEN match(oldRoot, newRoot)
                            ELSE convertToMatchResult(Val(action.matches), oldRoot, newRoot)
             c == computeAnimation(oldRoot, newRoot, matchResult)
         IN [root |-> c.root, data |-> c.data, result |-> c.result,
             matchResult |-> matchResult, matched |-> TRUE]
    ELSE [root |-> [newRoot EXCEPT !.canvasBounds = oldRoot.canvasBounds],
          data |-> EmptyData, result |-> selectAnimation(<<>>),
          matchResult |-> <<>>, matched |-> FALSE]

\* ---------------------------------------------------------------- animations

Reverse(s) == [i \in 1..Len(s) |-> s[Len(s) + 1 - i]]

\* FadeAnimation at the end of its time: a faded-in element is opaque, a
\* faded-out element is transparent
endFade(t, job) ==
    LET e == GetAt(t, job.element)
    IN ReplaceAt(t, job.element, [e EXCEPT !.opacity = IF job.type = "in" THEN 100 ELSE 0])

\* MoveAnimation at the end of its time: the element is at its target position
endMove(t, job) ==
    LET e == GetAt(t, job.element)
    IN ReplaceAt(t, job.element, [e EXCEPT !.x = job.toPosition[1], !.y = job.toPosition[2]])

\* ResizeAnimation at the end of its time: the element has its target dimension
endResize(t, job) ==
    LET e == GetAt(t, job.element)
    IN ReplaceAt(t, job.element, [e EXCEPT !.w = job.toDimension[1], !.h = job.toDimension[2]])

RECURSIVE endJobs(_, _, _, _)
endJobs(t, kind, jobs, k) ==
    IF k > Len(jobs) THEN t
    ELSE endJobs(IF kind = "fade" THEN endFade(t, jobs[k])
                 ELSE IF kind = "move" THEN endMove(t, jobs[k])
                 ELSE endResize(t, jobs[k]),
                 kind, jobs, k + 1)

RECURSIVE removeFaded(_, _, _)
\* the elements that were faded out leave the tree (removeAfterFadeOut); the
\* copies were appended one after the other, so they leave last first
removeFaded(t, jobs, k) ==
    IF k > Len(jobs) THEN t
    ELSE removeFaded(IF jobs[k].type = "out" /\ jobs[k].element /= <<>>
                     THEN RemoveAt(t, jobs[k].element) ELSE t,
                     jobs, k + 1)

RECURSIVE endAnimations(_, _, _)
\* every animation of the list (one animation, or the children of a compound
\* animation) run to the end of its time on tree t
endAnimations(t, animations, k) ==
    IF k > Len(animations) THEN t
    ELSE LET a == animations[k]
             done == endJobs(t, a.kind, a.jobs, 1)
         IN endAnimations(done, animations, k + 1)

fadeJobs(animations) ==
    IF \E k \in 1..Len(animations) : animations[k].kind = "fade"
    THEN animations[CHOOSE k \in 1..Len(animations) : animations[k].kind = "fade"].jobs
    ELSE <<>>

\* the tree the promise of animation.start() resolves to
animationEnd(t, animations) ==
    removeFaded(endAnimations(t, animations, 1), Reverse(fadeJobs(animations)), 1)

\* ------------------------------------------------------------------- inputs

\* element "a" as the current tree may hold it
OldA ==
    {Elem("a", caps, 0, 0, 10, 10, sel, 100, <<>>) :
        caps \in {AllCaps, {"sel", "fade"}, {"loc", "bnd", "sel"}}, sel \in BOOLEAN}
    \cup {Elem("a", AllCaps, 0, 0, -1, -1, FALSE, 100, <<>>)}

\* element "a" as a new model may deliver it: at the old place, within the
\* tolerance, moved, resized, not yet measured, with other features
NewGeometry ==
    {<<0, 0, 10, 10>>, <<1, 1, 11, 11>>, <<2, 0, 10, 10>>, <<0, 2, 10, 10>>,
     <<0, 0, 12, 10>>, <<0, 0, 10, 12>>, <<0, 0, -1, -1>>, <<2, 0, 12, 10>>,
     <<2, 2, -1, 10>>}

NewA ==
    {Elem("a", AllCaps, g[1], g[2], g[3], g[4], FALSE, 100, <<>>) : g \in NewGeometry}
    \cup {Elem("a", caps, 2, 0, 12, 10, TRUE, 100, <<>>) :
            caps \in {{"sel", "fade"}, {"loc", "bnd", "sel"}, {}}}
    \cup {Elem("a", AllCaps, g[1], g[2], g[3], g[4], TRUE, 50, <<>>) :
            g \in {<<0, 0, 10, 10>>, <<2, 0, 12, 10>>}}

OldB ==
    {Elem("b", caps, 5, 5, 10, 10, FALSE, 100, <<>>) : caps \in {AllCaps, {"loc", "bnd", "sel"}}}

NewB ==
    {Elem("b", AllCaps, 5, 5, 10, 10, FALSE, 100, <<>>),
     Elem("b", {"loc", "bnd", "sel"}, 5, 5, 10, 10, FALSE, 100, <<>>),
     Elem("b", AllCaps, 7, 5, 10, 10, FALSE, 50, <<>>)}

WithChild(a, b) == [a EXCEPT !.children = <<b>>]

OldKids ==
    {<<>>} \cup {<<a>> : a \in OldA}
    \cup {<<a, b>> : a \in OldA, b \in OldB}
    \cup {<<WithChild(a, b)>> : a \in OldA, b \in OldB}

NewKids ==
    {<<>>} \cup {<<a>> : a \in NewA} \cup {<<b>> : b \in NewB}
    \cup {<<a, b>> : a \in NewA, b \in NewB}
    \cup {<<WithChild(a, b)>> : a \in NewA, b \in NewB}

\* the root of the current model: measured by the client, scrolled and zoomed
OldRootOf(kids) == Root("r", {"vp"}, "cbA", 5, 2, kids)
\* the root schema a model source delivers
NewRootOf(kids) == Root("r", {"vp"}, Undefined, 0, 1, kids)

\* the root before any model was set
EMPTY_ROOT == Root("EMPTY", {}, EMPTY_BOUNDS, 0, 1, <<>>)

FewOldKids == {<<>>, <<Elem("a", AllCaps, 0, 0, 10, 10, TRUE, 100, <<>>)>>}
FewNewKids == {<<>>, <<Elem("a", AllCaps, 2, 0, 12, 10, FALSE, 100, <<>>)>>,
               <<Elem("b", AllCaps, 5, 5, 10, 10, FALSE, 100, <<>>)>>}

OldRoots ==
    {EMPTY_ROOT}
    \cup {Root("r", caps, cb, 5, 2, kids) :
            caps \in {{}, {"vp"}}, cb \in {EMPTY_BOUNDS, "cbA"}, kids \in FewOldKids}

NewRoots ==
    {Root(id, caps, cb, 0, 1, kids) :
        id \in {"r", "s"}, caps \in {{}, {"vp"}}, cb \in {Undefined, "cbB"}, kids \in FewNewKids}

\* three levels below the root: c in b in a
DeepC == Elem("c", AllCaps, 3, 3, 10, 10, FALSE, 100, <<>>)
DeepKids ==
    {<<WithChild(a, WithChild(b, DeepC))>> :
        a \in {Elem("a", caps, 0, 0, 10, 10, FALSE, 100, <<>>) :
                  caps \in {AllCaps, {"loc", "bnd", "sel"}}},
        b \in OldB}

\* updates with a full new root: [old, newRoot]
RootInputs ==
    {<<OldRootOf(ok), NewRootOf(nk)>> : ok \in OldKids, nk \in NewKids}
    \cup (OldRoots \X NewRoots)
    \cup {<<OldRootOf(ok), NewRootOf(nk)>> :
            ok \in DeepKids, nk \in {<<>>} \cup {<<b>> : b \in NewB} \cup DeepKids}
    \cup {<<OldRootOf(ok), NewRootOf(nk)>> :
            nk \in DeepKids, ok \in {<<>>} \cup {<<b>> : b \in OldB}}

\* the elements match directives name
DirA == Elem("a", AllCaps, 0, 0, 10, 10, FALSE, 100, <<>>)
DirA2 == Elem("a", AllCaps, 2, 0, 12, 10, FALSE, 100, <<>>)
DirB == Elem("b", AllCaps, 5, 5, 10, 10, FALSE, 100, <<>>)
DirC == Elem("c", AllCaps, 3, 3, 10, 10, FALSE, 100, <<>>)
DirZ == Elem("z", AllCaps, 0, 0, 10, 10, FALSE, 100, <<>>)
DirR == Elem("r", {}, 0, 0, 10, 10, FALSE, 100, <<>>)

Directives ==
    {Directive(Some(DirA), Nothing, "r", Undefined),
     Directive(Some(DirB), Nothing, "a", Undefined),
     Directive(Some(DirB), Nothing, Undefined, Undefined),
     Directive(Some(DirZ), Nothing, "r", Undefined),
     Directive(Some(DirR), Nothing, Undefined, Undefined),
     Directive(Nothing, Some(DirC), Undefined, "r"),
     Directive(Nothing, Some(DirC), Undefined, "a"),
     Directive(Nothing, Some(DirC), Undefined, "zz"),
     Directive(Nothing, Some(DirC), Undefined, Undefined),
     Directive(Nothing, Some(DirA), Undefined, "r"),
     Directive(Some(DirA), Some(DirA2), "r", "r"),
     Directive(Some(DirA), Some(DirC), "r", "r"),
     Directive(Nothing, Nothing, Undefined, Undefined)}

RECURSIVE SeqsUpTo(_, _)
\* the sequences over S of length at most n
SeqsUpTo(S, n) ==
    IF n = 0 THEN {<<>>}
    ELSE LET shorter == SeqsUpTo(S, n - 1)
         IN shorter \cup {Append(q, e) : q \in {r \in shorter : Len(r) = n - 1}, e \in S}

MatchLists == SeqsUpTo(Directives, MaxMatches)

\* the current trees updates with match directives are applied to
DirOldRoots ==
    {OldRootOf(kids) :
        kids \in {<<>>, <<DirA, DirB>>, <<WithChild(DirA, DirB)>>,
                  <<WithChild([DirA EXCEPT !.caps = {"loc", "bnd", "sel"}], DirB)>>}}

\* an UpdateModelAction as constructed: animate is true unless it is given
Action(newRoot, matches, animate) ==
    [newRoot |-> newRoot, matches |-> matches, animate |-> animate]

\* [current root, action]
Inputs ==
    {<<in[1], Action(Some(in[2]), Nothing, animate)>> :
        in \in RootInputs, animate \in BOOLEAN}
    \cup {<<old, Action(Nothing, Some(ms), TRUE)>> : old \in DirOldRoots, ms \in MatchLists}
    \cup {<<old, Action(Nothing, Some(ms), FALSE)>> :
            old \in DirOldRoots, ms \in SeqsUpTo(Directives, 1)}
    \cup {<<old, Action(Nothing, Nothing, TRUE)>> : old \in DirOldRoots}
    \cup {<<old, Action(Some(NewRootOf(<<DirA2>>)), Some(ms), TRUE)>> :
            old \in DirOldRoots, ms \in SeqsUpTo(Directives, 1)}

\* ------------------------------------------------------- set-model command

\* the model roots a SetModelAction carries and the command stack passes
ModelRoots == {"rootA", "rootB", "rootC", "rootD"}

\* the commands offered to merge
OtherCommands == {"SetModel", "updateModel", "select"}

\* a SetModelCommand as constructed for action: oldRoot and newRoot are not set
SetModelCommand(newRoot) ==
    [action |-> newRoot, oldRoot |-> Undefined, newRoot |-> Undefined]

NoSetModel == SetModelCommand(Undefined)

NoSetCall == [op |-> "none", element |-> Undefined, returned |-> Undefined,
              executedWith |-> Undefined]

\* SetModelCommand.execute(element): the command afterwards and the value returned
setModelExecute(c, element) ==
    [command |-> [c EXCEPT !.oldRoot = element, !.newRoot = c.action],
     returned |-> c.action]

\* mutant: undo hands back the root it is passed
setModelUndo_ReturnsElement(c, element) ==
    [command |-> c, returned |-> element]

\* SetModelCommand.undo(element)
setModelUndo(c, element) ==
    [command |-> c, returned |-> c.oldRoot]

\* SetModelCommand.redo(element)
setModelRedo(c, element) ==
    [command |-> c, returned |-> c.newRoot]

\* SetModelCommand.merge(command)
setModelMerge(c, other) ==
    [command |-> c, returned |-> "false"]

\* ------------------------------------------------------------ visual nodes

\* the events, listeners and model elements of the registrations
Events == {"click", "mousedown", "mouseup"}
Listeners == {"listenerA", "listenerB"}
ListenerElements == {"a", "b"}

\* an entry of data.on: on[event] = [listener, element]
OnEntry(event, listener, element) ==
    [event |-> event, listener |-> listener, element |-> element]

\* a VNode without data, and one with data that has no on yet
NoData == [data |-> FALSE, on |-> Nothing]
NoOn == [data |-> TRUE, on |-> Nothing]

NoCall == [event |-> "none", listener |-> "none", element |-> "none",
           outcome |-> "none", before |-> NoData]

\* getData(vnode) and getOn(vnode): the data and data.on are created when missing
getOn(v) ==
    [data |-> TRUE, on |-> IF v.data /\ IsDef(v.on) THEN v.on ELSE Some({})]

\* the test on[event]
hasListener(v, event) ==
    v.data /\ IsDef(v.on) /\ \E e \in Val(v.on) : e.event = event

\* the assignment on[event] = [listener, element]
setListener(v, event, listener, element) ==
    [v EXCEPT !.on = Some({e \in Val(v.on) : e.event /= event}
                          \cup {OnEntry(event, listener, element)})]

\* mutant: no test, the later listener replaces the earlier
on_Overwrites(v, event, listener, element) ==
    [vnode |-> setListener(getOn(v), event, listener, element), outcome |-> "ok"]

\* on(vnode, event, listener, element): the node afterwards, and "error" for
\* the thrown Error
on(v, event, listener, element) ==
    IF hasListener(getOn(v), event)
    THEN [vnode |-> getOn(v), outcome |-> "error"]
    ELSE [vnode |-> setListener(getOn(v), event, listener, element), outcome |-> "ok"]

\* --------------------------------------------------------------- the command

VARIABLES
    heap,       \* the model roots created so far; a root is named by its position
    ctxRoot,    \* context.root: the root the command stack holds as current
    action,     \* command.action
    cmd,        \* command.oldRoot and command.newRoot (0: not set)
    result,     \* the last CommandResult: a root, or a started animation
    pc,         \* the last operation of the command stack on the command
    ops,        \* undo and redo operations so far
    last,       \* the arguments, the deltas and the outcome of the last performUpdate
    hist,       \* the same for execute, and the tree execute produced in the end
    vnode,      \* a visual node: its data and the listeners in data.on
    onCall,     \* the last call of on(vnode, ...): its arguments and how it ended
    earlier,    \* the CommandResult of the update before, once a next update is executed
    setModel,   \* a SetModelCommand: its action's newRoot, its oldRoot and newRoot
    setCall     \* the last call on the SetModelCommand: its argument and what it returned

vars == <<heap, ctxRoot, action, cmd, result, pc, ops, last, hist, vnode, onCall, earlier,
          setModel, setCall>>

NoResult == [kind |-> "none", root |-> 0, animations |-> <<>>, running |-> FALSE]

NoUpdate ==
    [left |-> EMPTY_ROOT, right |-> EMPTY_ROOT, after |-> EMPTY_ROOT, data |-> EmptyData,
     matchResult |-> <<>>, matched |-> FALSE]

\* a command constructed for action in[2] while in[1] is the current root
Constructed(in) ==
    /\ heap = <<in[1]>>
    /\ ctxRoot = 1
    /\ action = in[2]
    /\ cmd = [oldRoot |-> 0, newRoot |-> 0]
    /\ result = NoResult
    /\ pc = "constructed"
    /\ ops = 0
    /\ last = NoUpdate
    /\ hist = [forward |-> NoUpdate, produced |-> Nothing]
    /\ vnode = NoData
    /\ onCall = NoCall
    /\ earlier = NoResult
    /\ setModel = NoSetModel
    /\ setCall = NoSetCall

Init == \E in \in Inputs : Constructed(in)

\* what a performUpdate leaves in result, ctxRoot and last; the command stack
\* makes a returned root the current one at once, and the root of an animation
\* when the animation has ended
Returned(u, left, right, target) ==
    /\ result' = [kind |-> u.result.kind, root |-> target,
                  animations |-> u.result.children, running |-> u.result.kind /= "root"]
    /\ ctxRoot' = IF u.result.kind = "root" THEN target ELSE ctxRoot
    /\ last' = [left |-> left, right |-> right, after |-> u.root, data |-> u.data,
                matchResult |-> u.matchResult, matched |-> u.matched]

\* the new root execute builds before performUpdate
executeNewRoot(act, current) ==
    IF IsDef(act.newRoot) THEN createRoot(Val(act.newRoot))
    ELSE IF IsDef(act.matches) THEN applyMatches(createRoot(current), Val(act.matches))
    ELSE createRoot(current)

\* UpdateModelCommand.execute(context)
Execute ==
    /\ pc = "constructed"
    /\ \E old \in {heap[ctxRoot]} : \E new \in {executeNewRoot(action, old)} :
       \E u \in {performUpdate(action, old, new)} :
          /\ heap' = Append(heap, u.root)
          /\ cmd' = [oldRoot |-> ctxRoot, newRoot |-> Len(heap) + 1]
          /\ Returned(u, old, new, Len(heap) + 1)
          /\ hist' = [forward |-> last',
                      produced |-> IF u.result.kind = "root" THEN Some(u.root) ELSE Nothing]
    /\ pc' = "executed"
    /\ UNCHANGED <<action, ops, vnode, onCall, earlier, setModel, setCall>>

\* UpdateModelCommand.undo(context)
Undo ==
    /\ pc \in {"executed", "redone"}
    /\ ~result.running
    /\ ops < MaxOps
    /\ \E u \in {performUpdate(action, heap[cmd.newRoot], heap[cmd.oldRoot])} :
          /\ heap' = [heap EXCEPT ![cmd.oldRoot] = u.root]
          /\ Returned(u, heap[cmd.newRoot], heap[cmd.oldRoot], cmd.oldRoot)
    /\ pc' = "undone"
    /\ ops' = ops + 1
    /\ UNCHANGED <<action, cmd, hist, vnode, onCall, earlier, setModel, setCall>>

\* mutant of redo: the roots are passed as undo passes them
Redo_RootsSwapped ==
    /\ pc = "undone"
    /\ ~result.running
    /\ ops < MaxOps
    /\ \E u \in {performUpdate(action, heap[cmd.newRoot], heap[cmd.oldRoot])} :
          /\ heap' = [heap EXCEPT ![cmd.oldRoot] = u.root]
          /\ Returned(u, heap[cmd.newRoot], heap[cmd.oldRoot], cmd.oldRoot)
    /\ pc' = "redone"
    /\ ops' = ops + 1
    /\ UNCHANGED <<action, cmd, hist, vnode, onCall, earlier, setModel, setCall>>

\* UpdateModelCommand.redo(context)
Redo ==
    /\ pc = "undone"
    /\ ~result.running
    /\ ops < MaxOps
    /\ \E u \in {performUpdate(action, heap[cmd.oldRoot], heap[cmd.newRoot])} :
          /\ heap' = [heap EXCEPT ![cmd.newRoot] = u.root]
          /\ Returned(u, heap[cmd.oldRoot], heap[cmd.newRoot], cmd.newRoot)
    /\ pc' = "redone"
    /\ ops' = ops + 1
    /\ UNCHANGED <<action, cmd, hist, vnode, onCall, earlier, setModel, setCall>>

\* the started animation reaches the end of its time and its promise resolves
AnimationEnd ==
    /\ result.running
    /\ heap' = [heap EXCEPT ![result.root] = animationEnd(@, result.animations)]
    /\ result' = [result EXCEPT !.running = FALSE]
    /\ ctxRoot' = result.root
    /\ hist' = IF pc = "executed" THEN [hist EXCEPT !.produced = Some(heap'[result.root])]
               ELSE hist
    /\ UNCHANGED <<action, cmd, pc, ops, last, vnode, onCall, earlier, setModel, setCall>>

Next == Execute \/ Undo \/ Redo \/ AnimationEnd

Spec == Init /\ [][Next]_vars

\* the state of the update command while listeners are registered
CommandUntouched ==
    UNCHANGED <<heap, ctxRoot, action, cmd, result, pc, ops, last, hist, earlier>>

\* the state of the update command and of the visual node
UpdateUntouched == CommandUntouched /\ UNCHANGED <<vnode, onCall>>

\* the visual nodes a view hands to on: fresh, with data, with a listener
InitialVNodes ==
    {NoData, NoOn, getOn(NoOn),
     setListener(getOn(NoOn), "click", "listenerA", "a")}

InitOn ==
    /\ heap = <<EMPTY_ROOT>>
    /\ ctxRoot = 1
    /\ action = Action(Nothing, Nothing, TRUE)
    /\ cmd = [oldRoot |-> 0, newRoot |-> 0]
    /\ result = NoResult
    /\ pc = "constructed"
    /\ ops = 0
    /\ last = NoUpdate
    /\ hist = [forward |-> NoUpdate, produced |-> Nothing]
    /\ earlier = NoResult
    /\ setModel = NoSetModel
    /\ setCall = NoSetCall
    /\ vnode \in InitialVNodes
    /\ onCall = NoCall

\* a call on(vnode, event, listener, element)
On ==
    /\ \E event \in Events, listener \in Listeners, element \in ListenerElements :
       \E r \in {on(vnode, event, listener, element)} :
          /\ vnode' = r.vnode
          /\ onCall' = [event |-> event, listener |-> listener, element |-> element,
                        outcome |-> r.outcome, before |-> vnode]
    /\ CommandUntouched
    /\ UNCHANGED <<setModel, setCall>>

NextOn == On

SpecOn == InitOn /\ [][NextOn]_vars

\* the children of the roots of two updates that follow each other
OverlapOldKids ==
    {<<>>, <<DirA>>, <<DirA, DirB>>}
OverlapNewKids ==
    {<<>>, <<DirA2>>, <<DirB>>, <<DirA2, [DirB EXCEPT !.x = 7]>>, <<DirA, DirB, DirC>>}

\* the first update: a current root and the action of the command
OverlapInputs ==
    {<<OldRootOf(ok), Action(Some(NewRootOf(nk)), Nothing, animate)>> :
        ok \in OverlapOldKids, nk \in OverlapNewKids, animate \in BOOLEAN}

\* the actions of the update that arrives next
NextActions ==
    {Action(Some(NewRootOf(nk)), Nothing, animate) :
        nk \in OverlapNewKids, animate \in BOOLEAN}
    \cup {Action(Some(Root("s", {"vp"}, Undefined, 0, 1, <<DirA>>)), Nothing, TRUE)}
    \cup {Action(Nothing, Some(<<d>>), TRUE) :
            d \in {Directive(Some(DirA), Nothing, "r", Undefined),
                   Directive(Nothing, Some(DirC), Undefined, "r")}}

InitOverlap == \E in \in OverlapInputs : Constructed(in)

\* mutant: the next update is reconciled against the tree the animation in
\* flight works on
ExecuteNext_AgainstAnimated ==
    /\ pc = "executed"
    /\ earlier.kind = "none"
    /\ \E act \in NextActions :
       \E old \in {heap[result.root]} : \E new \in {executeNewRoot(act, old)} :
       \E u \in {performUpdate(act, old, new)} :
          /\ action' = act
          /\ heap' = Append(heap, u.root)
          /\ cmd' = [oldRoot |-> result.root, newRoot |-> Len(heap) + 1]
          /\ Returned(u, old, new, Len(heap) + 1)
          /\ hist' = [forward |-> last',
                      produced |-> IF u.result.kind = "root" THEN Some(u.root) ELSE Nothing]
    /\ earlier' = result
    /\ UNCHANGED <<pc, ops, vnode, onCall, setModel, setCall>>

\* execute(context) of the command of a next update, whether or not the
\* animation of the update before has ended: nothing in execute waits for it
ExecuteNext ==
    /\ pc = "executed"
    /\ earlier.kind = "none"
    /\ \E act \in NextActions :
       \E old \in {heap[ctxRoot]} : \E new \in {executeNewRoot(act, old)} :
       \E u \in {performUpdate(act, old, new)} :
          /\ action' = act
          /\ heap' = Append(heap, u.root)
          /\ cmd' = [oldRoot |-> ctxRoot, newRoot |-> Len(heap) + 1]
          /\ Returned(u, old, new, Len(heap) + 1)
          /\ hist' = [forward |-> last',
                      produced |-> IF u.result.kind = "root" THEN Some(u.root) ELSE Nothing]
    /\ earlier' = result
    /\ UNCHANGED <<pc, ops, vnode, onCall, setModel, setCall>>

\* the animation of the update before reaches the end of its time after the
\* next update was executed: it writes its end values to its own tree; the
\* tree is not made the current one
EarlierAnimationEnd ==
    /\ earlier.running
    /\ heap' = [heap EXCEPT ![earlier.root] = animationEnd(@, earlier.animations)]
    /\ earlier' = [earlier EXCEPT !.running = FALSE]
    /\ UNCHANGED <<ctxRoot, action, cmd, result, pc, ops, last, hist, vnode, onCall,
                   setModel, setCall>>

NextOverlap == Execute \/ ExecuteNext \/ AnimationEnd \/ EarlierAnimationEnd

SpecOverlap == InitOverlap /\ [][NextOverlap]_vars

InitSetModel ==
    /\ heap = <<EMPTY_ROOT>>
    /\ ctxRoot = 1
    /\ action = Action(Nothing, Nothing, TRUE)
    /\ cmd = [oldRoot |-> 0, newRoot |-> 0]
    /\ result = NoResult
    /\ pc = "constructed"
    /\ ops = 0
    /\ last = NoUpdate
    /\ hist = [forward |-> NoUpdate, produced |-> Nothing]
    /\ earlier = NoResult
    /\ vnode = NoData
    /\ onCall = NoCall
    /\ \E newRoot \in ModelRoots : setModel = SetModelCommand(newRoot)
    /\ setCall = NoSetCall

\* what a call leaves in the command and in the record of the call
SetModelCalled(op, element, r) ==
    /\ setModel' = r.command
    /\ setCall' = [op |-> op, element |-> element, returned |-> r.returned,
                   executedWith |-> IF op = "execute" THEN element
                                    ELSE setCall.executedWith]
    /\ UpdateUntouched

\* the command stack calls execute with the current root
SetModelExecute ==
    \E element \in ModelRoots :
        SetModelCalled("execute", element, setModelExecute(setModel, element))

\* the command stack calls undo, with whatever root is current
SetModelUndo ==
    \E element \in ModelRoots :
        SetModelCalled("undo", element, setModelUndo(setModel, element))

\* the command stack calls redo
SetModelRedo ==
    \E element \in ModelRoots :
        SetModelCalled("redo", element, setModelRedo(setModel, element))

\* the command stack offers another command for merging
SetModelMerge ==
    \E other \in OtherCommands :
        SetModelCalled("merge", other, setModelMerge(setModel, other))

NextSetModel == SetModelExecute \/ SetModelUndo \/ SetModelRedo \/ SetModelMerge

SpecSetModel == InitSetModel /\ [][NextSetModel]_vars




\* ------------------------------------------------------------------ claims

\* the current root as it was when execute took it
OldAtExecute == hist.forward.left

\* C1: with animate = false and a new root T, execute returns the new root at
\* once (no animation); it is T as created by the model factory, and its canvas
\* bounds are those of the old root.
C1_IdentityWithoutAnimation ==
    (pc = "executed" /\ ~action.animate /\ IsDef(action.newRoot)) =>
        /\ result.kind = "root" /\ ~result.running
        /\ result.root = cmd.newRoot /\ ctxRoot = cmd.newRoot
        /\ heap[cmd.newRoot] =
              [Val(action.newRoot) EXCEPT !.canvasBounds = OldAtExecute.canvasBounds]
        /\ heap[cmd.oldRoot] = OldAtExecute

\* a not animated update that delivers moved children and other canvas bounds
C1_Witness ==
    /\ pc = "executed" /\ ~action.animate /\ IsDef(action.newRoot)
    /\ Val(action.newRoot).id = OldAtExecute.id
    /\ Val(action.newRoot).canvasBounds /= OldAtExecute.canvasBounds
    /\ Len(Val(action.newRoot).children) = 2
    /\ Len(OldAtExecute.children) = 1
    /\ Val(action.newRoot).children[1].x /= OldAtExecute.children[1].x

\* C2: when the root identifiers differ (also when the current root is the
\* empty root), the update is a replacement even with animate = true: nothing is
\* matched, no delta is recorded, the new root is returned at once, and it is
\* the new root as given but for the canvas bounds of the old root.  An
\* animation is returned only with animate = true and equal root identifiers.
C2_RootChangeReplaces ==
    pc /= "constructed" =>
        /\ last.left.id /= last.right.id =>
              /\ ~last.matched /\ last.data = EmptyData /\ last.matchResult = <<>>
              /\ result.kind = "root" /\ ~result.running /\ result.animations = <<>>
              /\ ctxRoot = result.root
              /\ heap[result.root] = [last.right EXCEPT !.canvasBounds = last.left.canvasBounds]
        /\ result.kind /= "root" => action.animate /\ last.left.id = last.right.id

\* an animated update of a tree with a child by a root of another identifier
\* that has another Fadeable child
C2_Witness ==
    /\ pc = "executed" /\ action.animate
    /\ last.left.id = "r" /\ last.right.id = "s"
    /\ Len(last.left.children) = 1 /\ Len(last.right.children) = 1
    /\ last.left.children[1].id /= last.right.children[1].id
    /\ isFadeable(last.left.children[1]) /\ isFadeable(last.right.children[1])
    /\ last.right.canvasBounds /= last.left.canvasBounds

\* C3: the tree redo yields (its animation run to the end) equals the tree the
\* original execute yielded.
C3_RedoAfterUndoRestoresExecute ==
    (pc = "redone" /\ ~result.running) =>
        /\ IsDef(hist.produced)
        /\ result.root = cmd.newRoot /\ ctxRoot = cmd.newRoot
        /\ heap[cmd.newRoot] = Val(hist.produced)

\* the redo was animated and has ended: it faded an element in and a copy of
\* another out, as execute did
C3_Witness ==
    /\ pc = "redone" /\ ~result.running /\ result.kind /= "root"
    /\ \E i, j \in 1..Len(last.data.fades) :
          last.data.fades[i].type = "in" /\ last.data.fades[j].type = "out"
    /\ hist.forward.data = last.data

\* the identifiers of the elements an update fades in (type "in") or out
FadedIds(update, type) ==
    {GetAt(update.after, update.data.fades[i].element).id :
        i \in {j \in 1..Len(update.data.fades) : update.data.fades[j].type = type}}

\* C4: undo fades out what execute faded in and fades in what execute faded
\* out, and redo records the deltas execute recorded.
C4_UndoMirrorsExecute ==
    /\ pc = "undone" =>
          /\ FadedIds(hist.forward, "in") \subseteq FadedIds(last, "out")
          /\ FadedIds(hist.forward, "out") \subseteq FadedIds(last, "in")
    /\ pc = "redone" => last.data = hist.forward.data

\* the delta categories an update recorded jobs for
Categories(data) ==
    {k \in {"fade", "move", "resize"} :
        Len(IF k = "fade" THEN data.fades ELSE IF k = "move" THEN data.moves ELSE data.resizes) > 0}

\* C5: after delta computation the result is the new root when no category has
\* a job, the animation of the category when exactly one has, and a compound
\* animation with one child per category with jobs when two or three have.
C5_CompoundSelection ==
    (pc /= "constructed" /\ last.matched) =>
        /\ Cardinality(Categories(last.data)) = 0 =>
              result.kind = "root" /\ result.animations = <<>> /\ ctxRoot = result.root
        /\ Cardinality(Categories(last.data)) = 1 =>
              /\ Categories(last.data) = {result.kind}
              /\ Len(result.animations) = 1 /\ result.animations[1].kind = result.kind
        /\ Cardinality(Categories(last.data)) >= 2 =>
              /\ result.kind = "compound"
              /\ Len(result.animations) = Cardinality(Categories(last.data))
              /\ {result.animations[i].kind : i \in 1..Len(result.animations)}
                    = Categories(last.data)

\* a fade, a move and a resize at once
C5_Witness ==
    /\ pc = "executed" /\ last.matched
    /\ Categories(last.data) = {"fade", "move", "resize"}
    /\ result.kind = "compound" /\ Len(result.animations) = 3

\* the matches of an update whose left side only is defined, and is a child
\* element: the removed elements
RemovedAt(update) ==
    {k \in 1..Len(update.matchResult) :
        /\ IsDef(update.matchResult[k].left) /\ ~IsDef(update.matchResult[k].right)
        /\ IsSChildElement(GetAt(update.left, Val(update.matchResult[k].left)))}

\* the matches whose right side only is defined: the added elements
AddedAt(update) ==
    {k \in 1..Len(update.matchResult) :
        ~IsDef(update.matchResult[k].left) /\ IsDef(update.matchResult[k].right)}

\* the new tree and the deltas when the first n matches have been processed
Processed(update, n) ==
    computeFrom(update.left, update.right, SubSeq(update.matchResult, 1, n), 1, EmptyData)

\* the fade jobs of type type whose element has the identifier id
FadeJobs(update, id, type) ==
    {i \in 1..Len(update.data.fades) :
        /\ update.data.fades[i].type = type
        /\ GetAt(update.after, update.data.fades[i].element).id = id}

\* C6 as stated: every removed Fadeable element whose identifier is not in the
\* new tree gets exactly one fade-out job, on a copy of it under the element of
\* the new tree that has its parent identifier; a removed element whose
\* identifier is in the new tree gets none.
C6_EveryRemovedFadeableFadesOut ==
    (pc /= "constructed" /\ last.matched) =>
        \A k \in RemovedAt(last) :
            LET m == last.matchResult[k]
                left == GetAt(last.left, Val(m.left))
            IN isFadeable(left) =>
                  IF left.id \notin Ids(last.right)
                  THEN /\ Cardinality(FadeJobs(last, left.id, "out")) = 1
                       /\ \A i \in FadeJobs(last, left.id, "out") :
                             ParentIdOf(last.after, last.data.fades[i].element) = m.leftParentId
                  ELSE FadeJobs(last, left.id, "out") = {}

\* C6 as amended: a removed Fadeable element gets a copy and one fade-out job on
\* it exactly when, at the time its match is processed, its parent identifier
\* is given and is the identifier of an element of the new tree and its own
\* identifier is not in the new tree (the copies added for earlier matches
\* count); the copy is appended to the children of that parent.  Every other
\* removed element leaves the tree and the deltas as they are.
C6_GhostOfRemoved ==
    (pc /= "constructed" /\ last.matched) =>
      /\ Processed(last, Len(last.matchResult)) = [root |-> last.after, data |-> last.data]
      /\ \A k \in RemovedAt(last) :
            LET m == last.matchResult[k]
                left == GetAt(last.left, Val(m.left))
                before == Processed(last, k - 1)
                after == Processed(last, k)
            IN IF /\ isFadeable(left)
                  /\ m.leftParentId /= Undefined
                  /\ m.leftParentId \in Ids(before.root)
                  /\ left.id \notin Ids(before.root)
               THEN \E pp \in PathSet(before.root) :
                       /\ GetAt(before.root, pp).id = m.leftParentId
                       /\ after.root = AddChild(before.root, pp, left)
                       /\ after.data = [before.data EXCEPT !.fades =
                              Append(@, Fade(Append(pp, Len(GetAt(before.root, pp).children) + 1), "out"))]
                       /\ Cardinality(FadeJobs(last, left.id, "out")) >= 1
               ELSE after = before

\* a removed Fadeable element that gets a copy, and its removed Fadeable child
\* that gets none because the copy of the parent brought its identifier
C6_Witness ==
    /\ pc = "executed" /\ last.matched
    /\ \E k, n \in RemovedAt(last) :
          /\ k < n
          /\ isFadeable(GetAt(last.left, Val(last.matchResult[k].left)))
          /\ isFadeable(GetAt(last.left, Val(last.matchResult[n].left)))
          /\ last.matchResult[n].leftParentId = last.matchResult[k].id
          /\ Len(last.data.fades) = 1
          /\ FadeJobs(last, last.matchResult[k].id, "out") = {1}

\* C7: an added element (a match with the new side only) that is Fadeable has
\* opacity 0 when the reconciliation is done and exactly one fade-in job; one
\* that is not Fadeable has no fade job and its properties are as delivered.
C7_AddedFadesIn ==
    (pc /= "constructed" /\ last.matched) =>
        \A k \in AddedAt(last) :
            LET rp == Val(last.matchResult[k].right)
                delivered == GetAt(last.right, rp)
                reconciled == GetAt(last.after, rp)
                jobs == {i \in 1..Len(last.data.fades) : last.data.fades[i].element = rp}
            IN IF isFadeable(delivered)
               THEN /\ reconciled.opacity = 0
                    /\ [reconciled EXCEPT !.children = delivered.children]
                          = [delivered EXCEPT !.opacity = 0]
                    /\ Cardinality(jobs) = 1
                    /\ \A i \in jobs : last.data.fades[i].type = "in"
               ELSE /\ jobs = {}
                    /\ [reconciled EXCEPT !.children = delivered.children] = delivered

\* two added elements: a Fadeable one delivered half transparent and one that
\* is not Fadeable
C7_Witness ==
    /\ pc = "executed" /\ last.matched
    /\ \E k, n \in AddedAt(last) :
          /\ isFadeable(GetAt(last.right, Val(last.matchResult[k].right)))
          /\ GetAt(last.right, Val(last.matchResult[k].right)).opacity = 50
          /\ GetAt(heap[cmd.newRoot], Val(last.matchResult[k].right)).opacity = 0
          /\ ~isFadeable(GetAt(last.right, Val(last.matchResult[n].right)))

\* the matches of an update with both sides defined: the matched pairs
MatchedAt(update) ==
    {k \in 1..Len(update.matchResult) :
        IsDef(update.matchResult[k].left) /\ IsDef(update.matchResult[k].right)}

\* the jobs of a sequence of move or resize jobs for the element at path rp
JobsFor(jobs, rp) == {i \in 1..Len(jobs) : jobs[i].element = rp}

\* C8: for a matched pair of Locateable elements, no move is recorded and the
\* position stays as delivered when x and y both differ by no more than the
\* tolerance; otherwise exactly one move from the old to the delivered position
\* is recorded and the reconciled position is the old one.
C8_MoveThreshold ==
    (pc /= "constructed" /\ last.matched) =>
        \A k \in MatchedAt(last) :
            LET rp == Val(last.matchResult[k].right)
                left == GetAt(last.left, Val(last.matchResult[k].left))
                delivered == GetAt(last.right, rp)
                reconciled == GetAt(last.after, rp)
            IN (isLocateable(left) /\ isLocateable(delivered)) =>
                  IF Abs(left.x - delivered.x) <= Tolerance /\ Abs(left.y - delivered.y) <= Tolerance
                  THEN /\ JobsFor(last.data.moves, rp) = {}
                       /\ reconciled.x = delivered.x /\ reconciled.y = delivered.y
                  ELSE /\ Cardinality(JobsFor(last.data.moves, rp)) = 1
                       /\ \A i \in JobsFor(last.data.moves, rp) :
                             last.data.moves[i] = Move(rp, delivered.id, <<left.x, left.y>>,
                                                       <<delivered.x, delivered.y>>)
                       /\ reconciled.x = left.x /\ reconciled.y = left.y

\* one pair delivered off its old position but within the tolerance, and one
\* pair moved in one coordinate only
C8_Witness ==
    /\ pc = "executed" /\ last.matched
    /\ \E k, n \in MatchedAt(last) :
          LET kl == GetAt(last.left, Val(last.matchResult[k].left))
              kr == GetAt(last.after, Val(last.matchResult[k].right))
              nl == GetAt(last.left, Val(last.matchResult[n].left))
              nd == GetAt(last.right, Val(last.matchResult[n].right))
              nr == GetAt(last.after, Val(last.matchResult[n].right))
          IN /\ isLocateable(kl) /\ isLocateable(kr) /\ kr.x = kl.x + Tolerance
             /\ JobsFor(last.data.moves, Val(last.matchResult[k].right)) = {}
             /\ isLocateable(nl) /\ isLocateable(nd) /\ nd.x /= nl.x /\ nd.y = nl.y
             /\ nr.x = nl.x
             /\ JobsFor(last.data.moves, Val(last.matchResult[n].right)) /= {}

\* C9: for a matched pair of Bounds-aware elements, a delivered dimension that
\* is not valid is replaced by the old width and height, x and y stay as the
\* move comparison left them, and no resize is recorded; a valid dimension is
\* kept, and one resize from the old to the delivered dimension is recorded
\* exactly when width or height differs by more than the tolerance.
C9_ResizeDeferral ==
    (pc /= "constructed" /\ last.matched) =>
        \A k \in MatchedAt(last) :
            LET rp == Val(last.matchResult[k].right)
                left == GetAt(last.left, Val(last.matchResult[k].left))
                delivered == GetAt(last.right, rp)
                reconciled == GetAt(last.after, rp)
                moved == JobsFor(last.data.moves, rp) /= {}
            IN (isBoundsAware(left) /\ isBoundsAware(delivered)) =>
                  IF ~isValidDimension(delivered)
                  THEN /\ reconciled.w = left.w /\ reconciled.h = left.h
                       /\ reconciled.x = (IF moved THEN left.x ELSE delivered.x)
                       /\ reconciled.y = (IF moved THEN left.y ELSE delivered.y)
                       /\ JobsFor(last.data.resizes, rp) = {}
                  ELSE /\ reconciled.w = delivered.w /\ reconciled.h = delivered.h
                       /\ Cardinality(JobsFor(last.data.resizes, rp)) =
                             (IF \/ Abs(left.w - delivered.w) > Tolerance
                                 \/ Abs(left.h - delivered.h) > Tolerance
                              THEN 1 ELSE 0)
                       /\ \A i \in JobsFor(last.data.resizes, rp) :
                             last.data.resizes[i] = Resize(rp, delivered.id, <<left.w, left.h>>,
                                                           <<delivered.w, delivered.h>>)

\* an element delivered without a measured width, at a new position
C9_Witness ==
    /\ pc = "executed" /\ last.matched
    /\ \E k \in MatchedAt(last) :
          LET rp == Val(last.matchResult[k].right)
              left == GetAt(last.left, Val(last.matchResult[k].left))
              delivered == GetAt(last.right, rp)
              reconciled == GetAt(last.after, rp)
          IN /\ isBoundsAware(left) /\ isBoundsAware(delivered)
             /\ delivered.w = -1 /\ delivered.h = left.h /\ left.w = 10
             /\ reconciled.w = 10
             /\ JobsFor(last.data.moves, rp) /= {}
             /\ last.data.resizes = <<>>

\* the identifiers the directives of an action name
NamedIds(matches) ==
    {Val(matches[i].left).id : i \in {j \in 1..Len(matches) : IsDef(matches[j].left)}}
    \cup {Val(matches[i].right).id : i \in {j \in 1..Len(matches) : IsDef(matches[j].right)}}

\* C10: the keys of a match result built from match directives are all the
\* identifiers, left and right, that the directives name.
C10_KeysAreAllNamedIds ==
    (pc /= "constructed" /\ last.matched /\ IsDef(action.matches)) =>
        {last.matchResult[k].id : k \in 1..Len(last.matchResult)}
            = NamedIds(Val(action.matches))

\* C11: every entry of a match result has its left side, its right side or
\* both; no key holds an entry with neither.
C11_EntryHasASide ==
    (pc /= "constructed" /\ last.matched) =>
        \A k \in 1..Len(last.matchResult) :
            IsDef(last.matchResult[k].left) \/ IsDef(last.matchResult[k].right)

\* no two elements of tree t have the same identifier
UniqueIds(t) ==
    \A p, q \in PathSet(t) : GetAt(t, p).id = GetAt(t, q).id => p = q

\* C12: every tree the command holds or the context has as current has unique
\* identifiers, after execute, undo and redo and while an animation runs.
C12_IdsStayUnique ==
    \A h \in 1..Len(heap) : UniqueIds(heap[h])

\* C13: the root an update results in has the canvas bounds of the root that
\* was there before the update, when it is returned and when its animation
\* has ended.
C13_CanvasBoundsKept ==
    pc /= "constructed" =>
        /\ last.after.canvasBounds = last.left.canvasBounds
        /\ heap[result.root].canvasBounds = last.left.canvasBounds

\* C14: in every matched pair the reconciled element has the selected flag of
\* the old element when both are Selectable, and the scroll and zoom of the old
\* root when both are viewport roots, whatever was delivered.
C14_LocalStateInherited ==
    (pc /= "constructed" /\ last.matched) =>
        \A k \in MatchedAt(last) :
            LET rp == Val(last.matchResult[k].right)
                left == GetAt(last.left, Val(last.matchResult[k].left))
                delivered == GetAt(last.right, rp)
                reconciled == GetAt(last.after, rp)
            IN /\ (isSelectable(left) /\ isSelectable(delivered)) =>
                     reconciled.selected = left.selected
               /\ (isViewportRoot(left) /\ isViewportRoot(delivered)) =>
                     reconciled.scroll = left.scroll /\ reconciled.zoom = left.zoom

\* a selected element delivered unselected, under a scrolled and zoomed root
\* delivered at the origin
C14_Witness ==
    /\ pc = "executed" /\ last.matched
    /\ isViewportRoot(last.left) /\ isViewportRoot(last.right)
    /\ last.right.scroll /= last.left.scroll /\ last.right.zoom /= last.left.zoom
    /\ last.after.scroll = last.left.scroll /\ last.after.zoom = last.left.zoom
    /\ \E k \in MatchedAt(last) :
          LET left == GetAt(last.left, Val(last.matchResult[k].left))
              delivered == GetAt(last.right, Val(last.matchResult[k].right))
          IN /\ isSelectable(left) /\ isSelectable(delivered)
             /\ left.selected /\ ~delivered.selected
             /\ GetAt(last.after, Val(last.matchResult[k].right)).selected

\* the working root of execute when the first n directives have been applied
Applied(n) ==
    applyMatches(createRoot(hist.forward.left), SubSeq(Val(action.matches), 1, n))

\* the paths of the child elements of tree t that have the identifier id
ChildrenWithId(t, id) == {p \in PathSet(t) : p /= <<>> /\ GetAt(t, p).id = id}

\* tree after is tree before with the left element of directive m detached
\* from its parent, or is tree before when no child element has its identifier
\* (the identifier is unknown, or is the root's)
Detached(before, m, after) ==
    IF IsDef(m.left) /\ ChildrenWithId(before, Val(m.left).id) /= {}
    THEN \E p \in ChildrenWithId(before, Val(m.left).id) : after = RemoveAt(before, p)
    ELSE after = before

\* tree after is tree before with the right element of directive m added last
\* under the element that has the parent identifier, or under the root when
\* the parent identifier is missing or unknown
Attached(before, m, after) ==
    IF ~IsDef(m.right) THEN after = before
    ELSE IF m.rightParentId /= Undefined /\ m.rightParentId \in Ids(before)
    THEN \E pp \in PathSet(before) :
            GetAt(before, pp).id = m.rightParentId /\ after = AddChild(before, pp, Val(m.right))
    ELSE after = AddChild(before, <<>>, Val(m.right))

\* C15: every directive of a list is applied in turn to the working copy of
\* the current root: its removal detaches the named child element or, when the
\* identifier is unknown or the root's, removes nothing; its addition goes under
\* the named parent or, when the parent is missing or unknown, under the root.
C15_DirectivesApplied ==
    (pc /= "constructed" /\ ~IsDef(action.newRoot) /\ IsDef(action.matches)) =>
        /\ hist.forward.right = Applied(Len(Val(action.matches)))
        /\ \A k \in 1..Len(Val(action.matches)) :
              \E mid \in {Applied(k - 1)} \cup
                         {RemoveAt(Applied(k - 1), p) : p \in PathSet(Applied(k - 1)) \ {<<>>}} :
                 /\ Detached(Applied(k - 1), Val(action.matches)[k], mid)
                 /\ Attached(mid, Val(action.matches)[k], Applied(k))

\* a removal of an unknown identifier followed by an addition under an unknown
\* parent, which lands under the root
C15_Witness ==
    /\ pc = "executed" /\ ~IsDef(action.newRoot) /\ IsDef(action.matches)
    /\ Len(Val(action.matches)) = 2
    /\ IsDef(Val(action.matches)[1].left) /\ ~IsDef(Val(action.matches)[1].right)
    /\ Val(Val(action.matches)[1].left).id \notin Ids(hist.forward.left)
    /\ IsDef(Val(action.matches)[2].right)
    /\ Val(action.matches)[2].rightParentId \notin Ids(hist.forward.left) \cup {Undefined}
    /\ Len(hist.forward.left.children) = 2
    /\ hist.forward.right =
          AddChild(createRoot(hist.forward.left), <<>>, Val(Val(action.matches)[2].right))

\* the listeners of node v for an event
ListenersOf(v, event) ==
    IF v.data /\ IsDef(v.on) THEN {e \in Val(v.on) : e.event = event} ELSE {}

\* C16: a call of on for an event that has a listener on the node ends with an
\* error and leaves every listener of the node as it was; a call for an event
\* without a listener succeeds and stores the listener with its element, and
\* leaves the listeners of the other events; no event has two listeners.
C16_DuplicateListenerFails ==
    /\ \A event \in Events : Cardinality(ListenersOf(vnode, event)) <= 1
    /\ onCall.outcome /= "none" =>
          /\ onCall.outcome = (IF ListenersOf(onCall.before, onCall.event) /= {}
                               THEN "error" ELSE "ok")
          /\ \A event \in Events \ {onCall.event} :
                ListenersOf(vnode, event) = ListenersOf(onCall.before, event)
          /\ ListenersOf(vnode, onCall.event) =
                (IF onCall.outcome = "error"
                 THEN ListenersOf(onCall.before, onCall.event)
                 ELSE {OnEntry(onCall.event, onCall.listener, onCall.element)})

\* another listener with another element is registered for an event that has
\* one: the call fails and the first listener is still there
C16_Witness ==
    /\ onCall.outcome = "error"
    /\ \E e \in ListenersOf(vnode, onCall.event) :
          e.listener /= onCall.listener /\ e.element /= onCall.element
    /\ \E event \in Events : ListenersOf(vnode, event) = {}

\* the step that executes a next update
Superseding == earlier.kind = "none" /\ earlier'.kind /= "none"

C18_OldRootIsSnapshot ==
    pc /= "constructed" => heap[cmd.oldRoot] = OldAtExecute

\* C19: execute, then undo, every animation run to its end: the tree undo
\* yields is the captured old root, and it is the tree that was current before
\* execute.
C19_UndoRestoresOldTree ==
    (pc = "undone" /\ ops = 1 /\ ~result.running) =>
        /\ result.root = cmd.oldRoot /\ ctxRoot = cmd.oldRoot
        /\ heap[result.root] = OldAtExecute

\* C20: in a matched pair a capability that the old or the new element lacks
\* gives no delta and leaves the property of the new element as delivered: no
\* move and the delivered position without Locateable on both sides, no resize
\* and the delivered dimension without Bounds-aware on both sides, the
\* delivered selection without Selectable on both sides, the delivered scroll
\* and zoom unless both are viewport roots.
C20_MissingCapabilitySkipped ==
    (pc /= "constructed" /\ last.matched) =>
        \A k \in MatchedAt(last) :
            LET rp == Val(last.matchResult[k].right)
                left == GetAt(last.left, Val(last.matchResult[k].left))
                delivered == GetAt(last.right, rp)
                reconciled == GetAt(last.after, rp)
            IN /\ ~(isLocateable(left) /\ isLocateable(delivered)) =>
                     /\ JobsFor(last.data.moves, rp) = {}
                     /\ reconciled.x = delivered.x /\ reconciled.y = delivered.y
               /\ ~(isBoundsAware(left) /\ isBoundsAware(delivered)) =>
                     /\ JobsFor(last.data.resizes, rp) = {}
                     /\ reconciled.w = delivered.w /\ reconciled.h = delivered.h
               /\ ~(isSelectable(left) /\ isSelectable(delivered)) =>
                     reconciled.selected = delivered.selected
               /\ ~(isViewportRoot(left) /\ isViewportRoot(delivered)) =>
                     reconciled.scroll = delivered.scroll /\ reconciled.zoom = delivered.zoom

\* an old element that is neither Locateable nor Bounds-aware, delivered as
\* both at another place and size, and selected: the selection is inherited,
\* place and size stay as delivered
C20_Witness ==
    /\ pc = "executed" /\ last.matched
    /\ \E k \in MatchedAt(last) :
          LET rp == Val(last.matchResult[k].right)
              left == GetAt(last.left, Val(last.matchResult[k].left))
              delivered == GetAt(last.right, rp)
              reconciled == GetAt(last.after, rp)
          IN /\ ~isLocateable(left) /\ isLocateable(delivered)
             /\ ~isBoundsAware(left) /\ isBoundsAware(delivered)
             /\ isSelectable(left) /\ isSelectable(delivered)
             /\ delivered.x /= left.x /\ delivered.w /= left.w
             /\ delivered.selected /= left.selected
             /\ reconciled.selected = left.selected
             /\ reconciled.x = delivered.x /\ reconciled.w = delivered.w
             /\ last.data.moves = <<>> /\ last.data.resizes = <<>>

\* C21: execute of the set-model command returns the new root of its action
\* and records the root it is given as the old root; after that every undo
\* returns the root given to execute and every redo the new root of the action,
\* whatever root they are passed, and neither changes the command; merge
\* returns false.
C21_SetModelReturnsRecordedRoots ==
    /\ setCall.op = "execute" =>
          /\ setCall.returned = setModel.action
          /\ setModel.oldRoot = setCall.element
    /\ setCall.executedWith /= Undefined =>
          /\ setModel.oldRoot = setCall.executedWith
          /\ setModel.newRoot = setModel.action
          /\ setCall.op = "undo" => setCall.returned = setCall.executedWith
          /\ setCall.op = "redo" => setCall.returned = setModel.action
    /\ setCall.op = "merge" => setCall.returned = "false"

\* undo is passed a root that is neither the one given to execute nor the new
\* root, and returns the one given to execute
C21_Witness ==
    /\ setCall.op = "undo"
    /\ setCall.executedWith /= Undefined
    /\ setCall.element \notin {setCall.executedWith, setModel.action}
    /\ setCall.returned = setCall.executedWith
    /\ setCall.executedWith /= setModel.action

====
